---- MODULE Spec2Model ----
(***************************************************************************)
(* A model of the PII normalizer: the nine field normalizers, the SHA-256  *)
(* hex rendering, the normalize-then-hash methods and the batch            *)
(* orchestrator Normalizer.normalize().                                    *)
(*                                                                         *)
(* A JavaScript string is a sequence of one-character strings.  A          *)
(* JavaScript value is a record [t, s, n]: t is its typeof-like tag, s the *)
(* characters of a string, n the number of a number or the heap reference  *)
(* of an object.                                                           *)
(***************************************************************************)
EXTENDS Integers, Sequences, FiniteSets, TLC

VARIABLES
    ctorOptions,   \* the argument the Normalizer was constructed with
    options,       \* this.options
    heap,          \* object reference -> contents of the object (traits mappings)
    raw,           \* the argument of the normalize() call
    pc,            \* position of the normalize() call
    at,            \* index in FieldOrder of the field whose hash is awaited
    result,        \* the record normalize() is building / has returned
    digestCalls,   \* inputs sha256() was invoked with during the call, in order
    call,          \* the last direct call of a method: function, arguments, return
    error,         \* the error raised during the normalize() call, "none" if none was
    tasks          \* the normalize() calls in progress together on the one instance

vars ==
    <<ctorOptions, options, heap, raw, pc, at, result, digestCalls, call, error, tasks>>

----------------------------------------------------------------------------
(* JavaScript values *)

Undefined == [t |-> "undefined", s |-> <<>>, n |-> 0]
Null == [t |-> "null", s |-> <<>>, n |-> 0]
TypeError == [t |-> "TypeError", s |-> <<>>, n |-> 0]
Str(chars) == [t |-> "string", s |-> chars, n |-> 0]
Num(k) == [t |-> "number", s |-> <<>>, n |-> k]
Bool(b) == [t |-> "boolean", s |-> <<>>, n |-> IF b THEN 1 ELSE 0]
Obj(ref) == [t |-> "object", s |-> <<>>, n |-> ref]

\* ToBoolean: what `if (v)` and `!v` test
Truthy(v) ==
    CASE v.t = "string" -> Len(v.s) > 0
      [] v.t = "number" -> v.n # 0
      [] v.t = "boolean" -> v.n = 1
      [] v.t = "object" -> TRUE
      [] OTHER -> FALSE

\* the left operand of `??` is replaced exactly when it is null or undefined
Nullish(v) == v.t \in {"null", "undefined"}

\* property read raw.f: undefined when the key is absent
Get(rec, f) == IF f \in DOMAIN rec THEN rec[f] ELSE Undefined

----------------------------------------------------------------------------
(* String primitives *)

UpperChars == <<"A","B","C","D","E","F","G","H","I","J","K","L","M",
                "N","O","P","Q","R","S","T","U","V","W","X","Y","Z">>
LowerChars == <<"a","b","c","d","e","f","g","h","i","j","k","l","m",
                "n","o","p","q","r","s","t","u","v","w","x","y","z">>
DigitChars == {"0","1","2","3","4","5","6","7","8","9"}
WhitespaceChars == {" ", "\t", "\n"}

ToLowerChar(c) ==
    IF \E i \in 1..Len(UpperChars) : UpperChars[i] = c
    THEN LowerChars[CHOOSE i \in 1..Len(UpperChars) : UpperChars[i] = c]
    ELSE c

\* String.prototype.toLowerCase
ToLowerCase(s) == [i \in 1..Len(s) |-> ToLowerChar(s[i])]

RECURSIVE TrimStart(_)
TrimStart(s) ==
    IF s # <<>> /\ Head(s) \in WhitespaceChars THEN TrimStart(Tail(s)) ELSE s

RECURSIVE TrimEnd(_)
TrimEnd(s) ==
    IF s # <<>> /\ s[Len(s)] \in WhitespaceChars
    THEN TrimEnd(SubSeq(s, 1, Len(s) - 1))
    ELSE s

\* String.prototype.trim
Trim(s) == TrimEnd(TrimStart(s))

\* s.replace(/[...]/g, '') for a character class: keep the characters outside it
RECURSIVE Keep(_, _)
Keep(s, keep) ==
    IF s = <<>> THEN <<>>
    ELSE IF Head(s) \in keep THEN <<Head(s)>> \o Keep(Tail(s), keep)
    ELSE Keep(Tail(s), keep)

RECURSIVE Remove(_, _)
Remove(s, drop) ==
    IF s = <<>> THEN <<>>
    ELSE IF Head(s) \in drop THEN Remove(Tail(s), drop)
    ELSE <<Head(s)>> \o Remove(Tail(s), drop)

\* s.replace(/\s+/g, ' '): every maximal run of whitespace becomes one space
RECURSIVE CollapseWhitespace(_)
CollapseWhitespace(s) ==
    IF s = <<>> THEN <<>>
    ELSE IF Head(s) \in WhitespaceChars
         THEN <<" ">> \o CollapseWhitespace(TrimStart(s))
         ELSE <<Head(s)>> \o CollapseWhitespace(Tail(s))

\* String.prototype.includes for a single character
Includes(s, c) == \E i \in 1..Len(s) : s[i] = c

\* String.prototype.startsWith for a single character
StartsWith(s, c) == s # <<>> /\ Head(s) = c

\* /^\d{8}$/.test(s)
IsEightDigits(s) == Len(s) = 8 /\ \A i \in 1..Len(s) : s[i] \in DigitChars

----------------------------------------------------------------------------
(* Normalizer: construction and the nine normalizers *)

\* constructor(options = {}): each option defaults when null or undefined
Constructor(o) ==
    [defaultCountryCode |->
        IF Nullish(o.defaultCountryCode) THEN Str(<<"1">>) ELSE o.defaultCountryCode,
     hashAddressFields |->
        IF Nullish(o.hashAddressFields) THEN Bool(FALSE) ELSE o.hashAddressFields]

\* the guard `if (!x || typeof x !== 'string') return null`
Rejected(v) == ~Truthy(v) \/ v.t # "string"

\* a faulty normalizeEmail: lowercases but does not trim
normalizeEmail_NoTrim(email) ==
    IF Rejected(email) THEN Null
    ELSE LET normalized == ToLowerCase(email.s)
         IN  IF ~Includes(normalized, "@") \/ Len(normalized) < 5
             THEN Null
             ELSE Str(normalized)

normalizeEmail(email) ==
    IF Rejected(email) THEN Null
    ELSE LET normalized == Trim(ToLowerCase(email.s))
         IN  IF ~Includes(normalized, "@") \/ Len(normalized) < 5
             THEN Null
             ELSE Str(normalized)

\* a faulty normalizePhone: ignores its countryCode argument
normalizePhone_IgnoresArgument(phone, countryCode) ==
    IF Rejected(phone) THEN Null
    ELSE LET code == options.defaultCountryCode
             stripped == Keep(phone.s, DigitChars \cup {"+"})
             digits == IF StartsWith(stripped, "+") THEN Tail(stripped) ELSE stripped
         IN  IF Len(digits) < 10 THEN Null
             ELSE IF Len(digits) = 10 THEN Str(<<"+">> \o code.s \o digits)
             ELSE Str(<<"+">> \o digits)

normalizePhone(phone, countryCode) ==
    IF Rejected(phone) THEN Null
    ELSE LET code == IF Nullish(countryCode)
                     THEN options.defaultCountryCode
                     ELSE countryCode
             stripped == Keep(phone.s, DigitChars \cup {"+"})
             digits == IF StartsWith(stripped, "+") THEN Tail(stripped) ELSE stripped
         IN  IF Len(digits) < 10 THEN Null
             ELSE IF Len(digits) = 10 THEN Str(<<"+">> \o code.s \o digits)
             ELSE Str(<<"+">> \o digits)

\* a faulty normalizeName: lowercases and trims but leaves inner whitespace as it is
normalizeName_NoCollapse(name) ==
    IF Rejected(name) THEN Null
    ELSE LET normalized == Trim(ToLowerCase(name.s))
         IN  IF Len(normalized) = 0 THEN Null ELSE Str(normalized)

normalizeName(name) ==
    IF Rejected(name) THEN Null
    ELSE LET normalized == CollapseWhitespace(Trim(ToLowerCase(name.s)))
         IN  IF Len(normalized) = 0 THEN Null ELSE Str(normalized)

normalizeGender(gender) ==
    IF Rejected(gender) THEN Null
    ELSE LET g == Trim(ToLowerCase(gender.s))
         IN  IF g = <<"m">> \/ g = <<"m","a","l","e">> THEN Str(<<"m">>)
             ELSE IF g = <<"f">> \/ g = <<"f","e","m","a","l","e">> THEN Str(<<"f">>)
             ELSE Null

\* a faulty normalizeDateOfBirth: removes hyphens and periods but not slashes
normalizeDateOfBirth_KeepsSlash(dob) ==
    IF Rejected(dob) THEN Null
    ELSE LET cleaned == Remove(dob.s, {"-", "."})
         IN  IF ~IsEightDigits(cleaned) THEN Null ELSE Str(cleaned)

normalizeDateOfBirth(dob) ==
    IF Rejected(dob) THEN Null
    ELSE LET cleaned == Remove(dob.s, {"-", "/", "."})
         IN  IF ~IsEightDigits(cleaned) THEN Null ELSE Str(cleaned)

normalizeCity(city) ==
    IF Rejected(city) THEN Null
    ELSE LET normalized == Trim(ToLowerCase(city.s))
         IN  IF Len(normalized) = 0 THEN Null ELSE Str(normalized)

normalizeState(state) ==
    IF Rejected(state) THEN Null
    ELSE LET normalized == Trim(ToLowerCase(state.s))
         IN  IF Len(normalized) = 0 THEN Null ELSE Str(normalized)

normalizeZipCode(zip) ==
    IF Rejected(zip) THEN Null
    ELSE LET normalized == Remove(Trim(ToLowerCase(zip.s)), WhitespaceChars)
         IN  IF Len(normalized) = 0 THEN Null ELSE Str(normalized)

\* a faulty normalizeCountry: transforms before it tests the type, so that
\* toLowerCase is read off a value that is no string
normalizeCountry_LateGuard(country) ==
    IF country.t # "string" THEN TypeError
    ELSE LET normalized == Trim(ToLowerCase(country.s))
         IN  IF Len(normalized) # 2 THEN Null ELSE Str(normalized)

normalizeCountry(country) ==
    IF Rejected(country) THEN Null
    ELSE LET normalized == Trim(ToLowerCase(country.s))
         IN  IF Len(normalized) # 2 THEN Null ELSE Str(normalized)

----------------------------------------------------------------------------
(* hash.ts: the digest and its hex rendering *)

\* the ASCII characters of codes 32..95 and 97..126, in code order
CharsFrom32 ==
    <<" ","!","\"","#","$","%","&","'","(",")","*","+",",","-",".","/",
      "0","1","2","3","4","5","6","7","8","9",":",";","<","=",">","?",
      "@","A","B","C","D","E","F","G","H","I","J","K","L","M","N","O",
      "P","Q","R","S","T","U","V","W","X","Y","Z","[","\\","]","^","_">>
CharsFrom97 ==
    <<"a","b","c","d","e","f","g","h","i","j","k","l","m","n","o",
      "p","q","r","s","t","u","v","w","x","y","z","{","|","}","~">>

\* String.prototype.charCodeAt for an ASCII character
CharCode(c) ==
    IF c = "\t" THEN 9
    ELSE IF c = "\n" THEN 10
    ELSE IF \E i \in 1..Len(CharsFrom32) : CharsFrom32[i] = c
    THEN 31 + (CHOOSE i \in 1..Len(CharsFrom32) : CharsFrom32[i] = c)
    ELSE 96 + (CHOOSE i \in 1..Len(CharsFrom97) : CharsFrom97[i] = c)

\* new TextEncoder().encode(input): one byte per ASCII character
Encode(s) == [i \in 1..Len(s) |-> CharCode(s[i])]

DigestBytes == 32

\* a position-sensitive checksum of the bytes
RECURSIVE Checksum(_, _)
Checksum(bytes, acc) ==
    IF bytes = <<>> THEN acc
    ELSE Checksum(Tail(bytes), (acc * 131 + Head(bytes) + 1) % 1000003)

\* crypto.subtle.digest('SHA-256', data) is the primitive of the platform, not code
\* of the repository: it is represented by a deterministic function of the bytes
\* that yields DigestBytes bytes.
SubtleDigest(bytes) ==
    LET h == Checksum(bytes, 7)
    IN  [i \in 1..DigestBytes |->
            (((h % 251) + i) * ((h % 241) + 2 * i + 1) + 13 * i * i + (h % 256)) % 256]

HexDigits == <<"0","1","2","3","4","5","6","7","8","9","a","b","c","d","e","f">>

\* b.toString(16) for a byte: no leading zero
ToString16(b) ==
    IF b < 16 THEN <<HexDigits[b + 1]>>
    ELSE <<HexDigits[(b \div 16) + 1], HexDigits[(b % 16) + 1]>>

\* a faulty padStart: leaves a single hex character without its leading zero
PadStart2_NoPad(s) == s

\* s.padStart(2, '0')
PadStart2(s) == IF Len(s) < 2 THEN <<"0">> \o s ELSE s

RECURSIVE Join(_)
Join(parts) == IF parts = <<>> THEN <<>> ELSE Head(parts) \o Join(Tail(parts))

\* sha256(input): the resolved value of the promise
sha256(input) ==
    LET data == Encode(input)
        hashArray == SubtleDigest(data)
    IN  Str(Join([i \in 1..Len(hashArray) |-> PadStart2(ToString16(hashArray[i]))]))

\* isSha256(value): /^[a-f0-9]{64}$/
isSha256(value) ==
    /\ Len(value) = 64
    /\ \A i \in 1..Len(value) : \E k \in 1..Len(HexDigits) : HexDigits[k] = value[i]

----------------------------------------------------------------------------
(* The normalize-then-hash methods.  Each yields the resolved value of its *)
(* promise (ret) and the inputs it invoked sha256() with (digested).       *)

Sha256Call(input) == [ret |-> sha256(input), digested |-> <<input>>]
NoDigest == [ret |-> Null, digested |-> <<>>]

\* a faulty hashEmail: digests the raw input, not the normalized string
hashEmail_DigestsRaw(email) ==
    LET normalized == normalizeEmail(email)
    IN  IF Truthy(normalized) THEN Sha256Call(email.s) ELSE NoDigest

hashEmail(email) ==
    LET normalized == normalizeEmail(email)
    IN  IF Truthy(normalized) THEN Sha256Call(normalized.s) ELSE NoDigest

hashPhone(phone, countryCode) ==
    LET normalized == normalizePhone(phone, countryCode)
    IN  IF Truthy(normalized) THEN Sha256Call(normalized.s) ELSE NoDigest

\* a faulty hashName: digests whatever string it is given, accepted or not
hashName_NoShortCircuit(name) ==
    IF name.t # "string" THEN NoDigest
    ELSE Sha256Call(CollapseWhitespace(Trim(ToLowerCase(name.s))))

hashName(name) ==
    LET normalized == normalizeName(name)
    IN  IF Truthy(normalized) THEN Sha256Call(normalized.s) ELSE NoDigest

hashGender(gender) ==
    LET normalized == normalizeGender(gender)
    IN  IF Truthy(normalized) THEN Sha256Call(normalized.s) ELSE NoDigest

hashDateOfBirth(dob) ==
    LET normalized == normalizeDateOfBirth(dob)
    IN  IF Truthy(normalized) THEN Sha256Call(normalized.s) ELSE NoDigest

hashCity(city) ==
    LET normalized == normalizeCity(city)
    IN  IF Truthy(normalized) THEN Sha256Call(normalized.s) ELSE NoDigest

hashState(state) ==
    LET normalized == normalizeState(state)
    IN  IF Truthy(normalized) THEN Sha256Call(normalized.s) ELSE NoDigest

hashZipCode(zip) ==
    LET normalized == normalizeZipCode(zip)
    IN  IF Truthy(normalized) THEN Sha256Call(normalized.s) ELSE NoDigest

hashCountry(country) ==
    LET normalized == normalizeCountry(country)
    IN  IF Truthy(normalized) THEN Sha256Call(normalized.s) ELSE NoDigest

\* a faulty hashExternalId: lowercases the id before digesting it
hashExternalId_Lowercases(externalId) ==
    IF Rejected(externalId) THEN NoDigest
    ELSE Sha256Call(Trim(ToLowerCase(externalId.s)))

hashExternalId(externalId) ==
    IF Rejected(externalId) THEN NoDigest ELSE Sha256Call(Trim(externalId.s))

----------------------------------------------------------------------------
(* Normalizer.normalize(raw): the batch orchestrator *)

\* the fields in the order normalize() handles them
FieldOrder ==
    <<"email", "phone", "first_name", "last_name", "gender", "date_of_birth",
      "external_id", "city", "state", "zip_code", "country",
      "ip_address", "user_agent", "subscription_id", "lead_id", "anonymous_id",
      "traits">>

AlwaysHashFields ==
    {"email", "phone", "first_name", "last_name", "gender", "date_of_birth",
     "external_id"}
AddressFields == {"city", "state", "zip_code", "country"}
PassthroughFields ==
    {"ip_address", "user_agent", "subscription_id", "lead_id", "anonymous_id",
     "traits"}
Fields == AlwaysHashFields \cup AddressFields \cup PassthroughFields

EmptyRecord == [f \in {} |-> Null]

\* result.f = v
Put(rec, f, v) == [g \in DOMAIN rec \cup {f} |-> IF g = f THEN v ELSE rec[g]]

\* the hash method normalize() calls for field f
HashField(f, v) ==
    CASE f = "email" -> hashEmail(v)
      [] f = "phone" -> hashPhone(v, Undefined)
      [] f = "first_name" -> hashName(v)
      [] f = "last_name" -> hashName(v)
      [] f = "gender" -> hashGender(v)
      [] f = "date_of_birth" -> hashDateOfBirth(v)
      [] f = "external_id" -> hashExternalId(v)
      [] f = "city" -> hashCity(v)
      [] f = "state" -> hashState(v)
      [] f = "zip_code" -> hashZipCode(v)
      [] f = "country" -> hashCountry(v)

\* whether normalize() awaits a hash method for field f
Hashes(f) ==
    f \in AlwaysHashFields \/ (f \in AddressFields /\ Truthy(options.hashAddressFields))

\* a faulty normalize(): tests that the key is there, not that the value is truthy
RECURSIVE RunFrom_KeyTest(_, _, _)
RunFrom_KeyTest(i, res, rec) ==
    IF i > Len(FieldOrder) THEN [pc |-> "returned", at |-> 0, result |-> res]
    ELSE LET f == FieldOrder[i]
         IN  IF f \notin DOMAIN rec THEN RunFrom_KeyTest(i + 1, res, rec)
             ELSE IF Hashes(f) THEN [pc |-> "await", at |-> i, result |-> res]
             ELSE RunFrom_KeyTest(i + 1, Put(res, f, rec[f]), rec)

\* a faulty normalize(): passes a field through only when it holds a string
RECURSIVE RunFrom_StringsOnly(_, _, _)
RunFrom_StringsOnly(i, res, rec) ==
    IF i > Len(FieldOrder) THEN [pc |-> "returned", at |-> 0, result |-> res]
    ELSE LET f == FieldOrder[i]
         IN  IF ~Truthy(Get(rec, f)) THEN RunFrom_StringsOnly(i + 1, res, rec)
             ELSE IF Hashes(f) THEN [pc |-> "await", at |-> i, result |-> res]
             ELSE IF rec[f].t # "string" THEN RunFrom_StringsOnly(i + 1, res, rec)
             ELSE RunFrom_StringsOnly(i + 1, Put(res, f, rec[f]), rec)

\* normalize() from the i-th field on, up to its next await or its return
RECURSIVE RunFrom(_, _, _)
RunFrom(i, res, rec) ==
    IF i > Len(FieldOrder) THEN [pc |-> "returned", at |-> 0, result |-> res]
    ELSE LET f == FieldOrder[i]
         IN  IF ~Truthy(Get(rec, f)) THEN RunFrom(i + 1, res, rec)
             ELSE IF Hashes(f) THEN [pc |-> "await", at |-> i, result |-> res]
             ELSE RunFrom(i + 1, Put(res, f, rec[f]), rec)

\* the sha256() invocations of the hash method called on reaching an await
Invoked(step, rec) ==
    IF step.pc = "await"
    THEN HashField(FieldOrder[step.at], rec[FieldOrder[step.at]]).digested
    ELSE <<>>

\* normalize(raw) is called with a record: it runs to its first await or returns
NormalizeBegin ==
    /\ pc = "called"
    /\ raw.t = "object"
    /\ LET step == RunFrom(1, EmptyRecord, raw.fields)
       IN  /\ pc' = step.pc
           /\ at' = step.at
           /\ result' = step.result
           /\ digestCalls' = digestCalls \o Invoked(step, raw.fields)
    /\ UNCHANGED <<ctorOptions, options, heap, raw, call, error, tasks>>

\* normalize(raw) is called with null or undefined: reading raw.email throws and
\* the promise of the async function rejects
NormalizeThrow ==
    /\ pc = "called"
    /\ raw.t # "object"
    /\ pc' = "rejected"
    /\ error' = "TypeError"
    /\ UNCHANGED <<ctorOptions, options, heap, raw, at, result, digestCalls, call, tasks>>

\* the awaited hash resolves: `if (h) result.f = h`, then on to the next await
NormalizeResume ==
    /\ pc = "await"
    /\ LET f == FieldOrder[at]
           h == HashField(f, raw.fields[f]).ret
           res == IF Truthy(h) THEN Put(result, f, h) ELSE result
           step == RunFrom(at + 1, res, raw.fields)
       IN  /\ pc' = step.pc
           /\ at' = step.at
           /\ result' = step.result
           /\ digestCalls' = digestCalls \o Invoked(step, raw.fields)
    /\ UNCHANGED <<ctorOptions, options, heap, raw, call, error, tasks>>

----------------------------------------------------------------------------
(* Inputs of the batch specification *)

\* the most fields a raw record holds
MaxPresent == 2

FieldValues(f) ==
    CASE f = "email" ->
            <<Str(<<"J","@","E","X",".","C","O">>),
              Str(<<" ","j","@","e","x",".","c","o"," ">>),
              Str(<<"b","a","d">>),
              Num(123)>>
      [] f = "phone" ->
            <<Str(<<"5","5","5","-","1","2","3","-","4","5","6","7">>),
              Str(<<"+","1","5","5","5","1","2","3","4","5","6","7">>),
              Str(<<"1","2","3">>),
              Str(<<"5","5","5","+","1","2","3","4","5","6","7">>)>>
      [] f = "first_name" ->
            <<Str(<<"J","O","H","N">>),
              Str(<<" ","J","o"," "," ","H","n","\t">>),
              Str(<<" "," ">>),
              Str(<<>>)>>
      [] f = "last_name" -> <<Str(<<"D","o","e">>), Num(123)>>
      [] f = "gender" ->
            <<Str(<<"M","a","l","e">>), Str(<<"f">>), Str(<<"o","t","h","e","r">>)>>
      [] f = "date_of_birth" ->
            <<Str(<<"1","9","9","0","-","0","1","-","1","5">>),
              Str(<<"9","0","-","0","1","-","1","5">>)>>
      [] f = "external_id" ->
            <<Str(<<"E","x","t","_","1">>), Str(<<" ","E","x","t","_","1"," ">>),
              Str(<<" "," ">>), Num(7)>>
      [] f = "city" -> <<Str(<<"S"," ","F">>), Str(<<" "," ">>), Num(5)>>
      [] f = "state" -> <<Str(<<"C","A">>), Str(<<" ","N","y"," ">>)>>
      [] f = "zip_code" ->
            <<Str(<<"S","W","1","A"," ","1","A","A">>), Str(<<"9","4","1","0","2">>)>>
      [] f = "country" -> <<Str(<<"U","S">>), Str(<<"U","S","A">>)>>
      [] f = "ip_address" -> <<Str(<<"1",".","2",".","3",".","4">>), Str(<<>>)>>
      [] f = "user_agent" -> <<Str(<<"M","o","z","/","5">>), Undefined>>
      [] f = "subscription_id" -> <<Str(<<"s","u","b","_","1">>), Null>>
      [] f = "lead_id" -> <<Str(<<"l","e","a","d","_","6">>), Num(0)>>
      [] f = "anonymous_id" -> <<Str(<<"A","n","o","n"," ">>), Num(42)>>
      [] f = "traits" -> <<Obj(1), Obj(2)>>

\* every record with exactly the keys S, each holding one of its field's values
RECURSIVE RecordsOver(_)
RecordsOver(S) ==
    IF S = {} THEN {EmptyRecord}
    ELSE LET f == CHOOSE x \in S : TRUE
         IN  { Put(r, f, FieldValues(f)[k]) :
                 r \in RecordsOver(S \ {f}), k \in 1..Len(FieldValues(f)) }

\* the raw records: at most MaxPresent keys
RawRecords ==
    UNION { RecordsOver(S) : S \in { T \in SUBSET Fields : Cardinality(T) <= MaxPresent } }

RawArgs ==
    { [t |-> "object", fields |-> r] : r \in RawRecords }
        \cup { [t |-> "null", fields |-> EmptyRecord],
               [t |-> "undefined", fields |-> EmptyRecord] }

\* the traits objects: { custom: 'value' } and an object nesting the first
HeapInit ==
    <<[k \in {"custom"} |-> Str(<<"v","a","l","u","e">>)],
      [k \in {"plan", "nested"} |->
          IF k = "plan" THEN Str(<<"p","r","o">>) ELSE Obj(1)]>>

\* the arguments of `new Normalizer(options)` in the batch specification
BatchCtorOptions ==
    {[defaultCountryCode |-> Undefined, hashAddressFields |-> Undefined],
     [defaultCountryCode |-> Undefined, hashAddressFields |-> Bool(TRUE)],
     [defaultCountryCode |-> Str(<<"4","4">>), hashAddressFields |-> Bool(FALSE)]}

NoCall == [fn |-> "none", arg |-> Undefined, countryCode |-> Undefined, ret |-> Undefined]

Init ==
    /\ ctorOptions \in BatchCtorOptions
    /\ options = Constructor(ctorOptions)
    /\ heap = HeapInit
    /\ raw \in RawArgs
    /\ pc = "called"
    /\ at = 0
    /\ result = EmptyRecord
    /\ digestCalls = <<>>
    /\ call = NoCall
    /\ error = "none"
    /\ tasks = <<>>

Next ==
    \/ NormalizeBegin
    \/ NormalizeThrow
    \/ NormalizeResume

Spec == Init /\ [][Next]_vars

----------------------------------------------------------------------------
(* Properties of normalize(), checked under Spec *)

Returned == pc = "returned"

\* the value raw.f of the call
RawField(f) == Get(raw.fields, f)

\* the normalizer of field f; external_id is only trimmed
FieldNormalizer(f, v) ==
    CASE f = "email" -> normalizeEmail(v)
      [] f = "phone" -> normalizePhone(v, Undefined)
      [] f \in {"first_name", "last_name"} -> normalizeName(v)
      [] f = "gender" -> normalizeGender(v)
      [] f = "date_of_birth" -> normalizeDateOfBirth(v)
      [] f = "external_id" ->
            IF v.t = "string" /\ v.s # <<>> THEN Str(Trim(v.s)) ELSE Null
      [] f = "city" -> normalizeCity(v)
      [] f = "state" -> normalizeState(v)
      [] f = "zip_code" -> normalizeZipCode(v)
      [] f = "country" -> normalizeCountry(v)

\* C1: with hashAddressFields = false, each of city, state, zip_code and country
\* that is truthy in the raw record appears in the returned record as the result
\* of its bare normalizer, and is omitted when that normalizer rejects it.
C1_AddressFieldsNormalized ==
    (Returned /\ options.hashAddressFields = Bool(FALSE)) =>
        \A f \in AddressFields :
            Truthy(RawField(f)) =>
                LET n == FieldNormalizer(f, RawField(f))
                IN  IF n = Null THEN f \notin DOMAIN result
                    ELSE f \in DOMAIN result /\ result[f] = n

\* the fields normalize() hashes under the configured options
HashedFields ==
    AlwaysHashFields \cup
        (IF options.hashAddressFields = Bool(TRUE) THEN AddressFields ELSE {})

C4_PassthroughUnchanged ==
    Returned =>
        \A f \in PassthroughFields :
            Truthy(RawField(f)) =>
                /\ f \in DOMAIN result
                /\ result[f] = RawField(f)
                /\ result[f].t = "object" => heap[result[f].n] = HeapInit[RawField(f).n]

\* a returned record that carries a nested traits object and a passthrough field
\* whose value is not a string
C4_Witness ==
    /\ Returned
    /\ "traits" \in DOMAIN result
    /\ result["traits"] = Obj(2)
    /\ "anonymous_id" \in DOMAIN result
    /\ result["anonymous_id"] = Num(42)

\* C5: normalize() fails for no argument: its promise never rejects.
C5_NormalizeNeverFails == pc # "rejected"


----------------------------------------------------------------------------
(* Direct calls of the nine normalizers *)

\* the longest string over a character alphabet
MaxTextLen == 5
\* the longest email argument: one more, so that a padded address reaches length 5
MaxEmailLen == 6
\* the most segments a composed string is made of
MaxSegs == 3

\* every string over chars of length at most n
Strings(chars, n) == UNION { [1..k -> chars] : k \in 0..n }

\* every concatenation of at most n of the segments
RECURSIVE Compose(_, _)
Compose(segs, n) ==
    IF n = 0 THEN {<<>>}
    ELSE LET shorter == Compose(segs, n - 1)
         IN  shorter \cup { a \o b : a \in shorter, b \in segs }

\* null, undefined, the empty string and values that are not strings
NonStrings ==
    {Null, Undefined, Str(<<>>), Num(123), Num(0), Bool(TRUE), Bool(FALSE), Obj(1)}

EmailInputs ==
    NonStrings \cup { Str(s) : s \in Strings({"A", "b", "@", " "}, MaxEmailLen) }
NameInputs ==
    NonStrings \cup { Str(s) : s \in Strings({"A", " ", "\t", "\n"}, MaxTextLen) }
AddressInputs ==
    NonStrings \cup { Str(s) : s \in Strings({"A", "b", " ", "1"}, MaxTextLen) }
GenderInputs ==
    NonStrings \cup
    { Str(s) : s \in Compose({<<" ">>, <<"m">>, <<"M">>, <<"a","l","e">>, <<"f">>,
                               <<"F">>, <<"e">>, <<"m","a","l","e">>, <<"x">>},
                              MaxSegs) }
DateInputs ==
    NonStrings \cup
    { Str(s) : s \in Compose({<<"1","9","9","0">>, <<"0","1","1","5">>, <<"0","1">>,
                               <<"1","5">>, <<"-">>, <<"/">>, <<".">>, <<"x">>},
                              MaxSegs) }
PhoneInputs ==
    NonStrings \cup
    { Str(s) : s \in Compose({<<"+">>, <<"-">>, <<" ">>, <<"5","5","5">>,
                               <<"1","2","3","4">>,
                               <<"5","5","5","1","2","3","4","5","6","7">>},
                              MaxSegs) }

\* the countryCode argument of normalizePhone: omitted, null, or a string
CountryCodeArgs ==
    {Undefined, Null, Str(<<"4","4">>), Str(<<>>), Str(<<"1","-">>), Str(<<"+">>)}

\* the arguments of `new Normalizer(options)` in the specification of direct calls
NormCtorOptions ==
    [defaultCountryCode : {Undefined, Null, Str(<<"4","4">>), Str(<<"1","-">>)},
     hashAddressFields : {Undefined}]
        \cup [defaultCountryCode : {Undefined},
              hashAddressFields : {Bool(TRUE)}]

\* no direct call is waiting for its caller to read the result
Idle == call.fn = "none"

Called(fn, arg, countryCode, ret) ==
    /\ call' = [fn |-> fn, arg |-> arg, countryCode |-> countryCode, ret |-> ret]
    /\ UNCHANGED <<ctorOptions, options, heap, raw, pc, at, result, digestCalls, error, tasks>>

CallNormalizeEmail ==
    /\ Idle
    /\ \E x \in EmailInputs : Called("normalizeEmail", x, Undefined, normalizeEmail(x))

CallNormalizePhone ==
    /\ Idle
    /\ \E x \in PhoneInputs, cc \in CountryCodeArgs :
           Called("normalizePhone", x, cc, normalizePhone(x, cc))

CallNormalizeName ==
    /\ Idle
    /\ \E x \in NameInputs : Called("normalizeName", x, Undefined, normalizeName(x))

CallNormalizeGender ==
    /\ Idle
    /\ \E x \in GenderInputs : Called("normalizeGender", x, Undefined, normalizeGender(x))

CallNormalizeDateOfBirth ==
    /\ Idle
    /\ \E x \in DateInputs :
           Called("normalizeDateOfBirth", x, Undefined, normalizeDateOfBirth(x))

CallNormalizeCity ==
    /\ Idle
    /\ \E x \in AddressInputs : Called("normalizeCity", x, Undefined, normalizeCity(x))

CallNormalizeState ==
    /\ Idle
    /\ \E x \in AddressInputs : Called("normalizeState", x, Undefined, normalizeState(x))

CallNormalizeZipCode ==
    /\ Idle
    /\ \E x \in AddressInputs : Called("normalizeZipCode", x, Undefined, normalizeZipCode(x))

CallNormalizeCountry ==
    /\ Idle
    /\ \E x \in AddressInputs : Called("normalizeCountry", x, Undefined, normalizeCountry(x))

\* the caller has read the returned value and may call again
Consume ==
    /\ call.fn # "none"
    /\ call' = NoCall
    /\ UNCHANGED <<ctorOptions, options, heap, raw, pc, at, result, digestCalls, error, tasks>>

InitNorm ==
    /\ ctorOptions \in NormCtorOptions
    /\ options = Constructor(ctorOptions)
    /\ heap = HeapInit
    /\ raw = [t |-> "object", fields |-> EmptyRecord]
    /\ pc = "idle"
    /\ at = 0
    /\ result = EmptyRecord
    /\ digestCalls = <<>>
    /\ call = NoCall
    /\ error = "none"
    /\ tasks = <<>>

NextNorm ==
    \/ CallNormalizeEmail
    \/ CallNormalizePhone
    \/ CallNormalizeName
    \/ CallNormalizeGender
    \/ CallNormalizeDateOfBirth
    \/ CallNormalizeCity
    \/ CallNormalizeState
    \/ CallNormalizeZipCode
    \/ CallNormalizeCountry
    \/ Consume

SpecNorm == InitNorm /\ [][NextNorm]_vars

----------------------------------------------------------------------------
(* Properties of the normalizers, checked under SpecNorm *)

\* the decimal digits of a string, in order
DigitsOf(s) == Keep(s, DigitChars)

\* C6: each of the nine normalizers returns null, and does not throw, for null,
\* undefined, the empty string and every value that is not a string.
C6_GuardRejectsNonStrings ==
    (call.fn # "none" /\ (call.arg.t # "string" \/ call.arg.s = <<>>)) =>
        call.ret = Null

\* normalizeCountry was called with the number 123 and returned null
C6_Witness ==
    /\ call.fn = "normalizeCountry"
    /\ call.arg = Num(123)
    /\ call.ret = Null

\* the country code that applies to the last call: the argument when given, else
\* the option the Normalizer was constructed with, else "1"
GivenCode ==
    IF ~Nullish(call.countryCode) THEN call.countryCode
    ELSE IF ~Nullish(ctorOptions.defaultCountryCode) THEN ctorOptions.defaultCountryCode
    ELSE Str(<<"1">>)

\* C7: for every string p, normalizePhone(p) is null exactly when p has fewer than
\* 10 decimal digits; otherwise it is '+', then the country code when p has
\* exactly 10 digits, then the digits of p and nothing else.
C7_PhoneDigitsOnly ==
    (call.fn = "normalizePhone" /\ call.arg.t = "string") =>
        LET ds == DigitsOf(call.arg.s)
        IN  IF Len(ds) < 10 THEN call.ret = Null
            ELSE IF Len(ds) = 10 THEN call.ret = Str(<<"+">> \o GivenCode.s \o ds)
            ELSE call.ret = Str(<<"+">> \o ds)

\* a string with exactly ten digits and no '+' other than a leading one
TenDigitNumber(v) ==
    /\ v.t = "string"
    /\ Len(DigitsOf(v.s)) = 10
    /\ LET kept == Keep(v.s, DigitChars \cup {"+"})
       IN  Tail(kept) = DigitsOf(v.s) \/ kept = DigitsOf(v.s)

C8_State ==
    /\ options.defaultCountryCode =
           IF Nullish(ctorOptions.defaultCountryCode) THEN Str(<<"1">>)
           ELSE ctorOptions.defaultCountryCode
    /\ options.hashAddressFields =
           IF Nullish(ctorOptions.hashAddressFields) THEN Bool(FALSE)
           ELSE ctorOptions.hashAddressFields
    /\ (call.fn = "normalizePhone" /\ TenDigitNumber(call.arg)) =>
           call.ret = Str(<<"+">> \o GivenCode.s \o DigitsOf(call.arg.s))

\* C8: normalizePhone prepends to a 10-digit number its countryCode argument when
\* one is given, else the defaultCountryCode of the constructor, else "1";
\* hashAddressFields defaults to false; and no call changes the options.
C8_CountryCodeAndOptions == []C8_State /\ [][options' = options]_vars

\* a Normalizer constructed without options prefixed "1" to a 10-digit number
\* that was passed without a country code
C8_Witness ==
    /\ call.fn = "normalizePhone"
    /\ Nullish(call.countryCode)
    /\ Nullish(ctorOptions.defaultCountryCode)
    /\ call.ret = Str(<<"+", "1", "5","5","5","1","2","3","4","5","6","7">>)

\* the normalizer named fn applied to v, with country code cc for normalizePhone
Apply(fn, v, cc) ==
    CASE fn = "normalizeEmail" -> normalizeEmail(v)
      [] fn = "normalizePhone" -> normalizePhone(v, cc)
      [] fn = "normalizeName" -> normalizeName(v)
      [] fn = "normalizeGender" -> normalizeGender(v)
      [] fn = "normalizeDateOfBirth" -> normalizeDateOfBirth(v)
      [] fn = "normalizeCity" -> normalizeCity(v)
      [] fn = "normalizeState" -> normalizeState(v)
      [] fn = "normalizeZipCode" -> normalizeZipCode(v)
      [] fn = "normalizeCountry" -> normalizeCountry(v)

\* C9: a normalizer applied to its own non-null result returns that result
\* (normalizePhone with the same Normalizer and the same countryCode argument).
C9_Idempotent ==
    (call.fn # "none" /\ call.ret # Null) =>
        Apply(call.fn, call.ret, call.countryCode) = call.ret

ToUpperChar(c) ==
    IF \E i \in 1..Len(LowerChars) : LowerChars[i] = c
    THEN UpperChars[CHOOSE i \in 1..Len(LowerChars) : LowerChars[i] = c]
    ELSE c

ToUpperCase(s) == [i \in 1..Len(s) |-> ToUpperChar(s[i])]

\* strings that differ from s only in letter case or surrounding whitespace
CaseAndSpaceVariants(s) ==
    {ToUpperCase(s), <<"\t">> \o ToLowerCase(s), <<" ">> \o s \o <<"\n", " ">>}

\* C10: for every string e, normalizeEmail(e) is the lowercased, trimmed form of
\* e, and null exactly when that form has no '@' or is shorter than 5; inputs
\* that differ only in case or surrounding whitespace normalize to the same value
\* and hashEmail gives them the same digest.
C10_EmailLowercasedTrimmed ==
    (call.fn = "normalizeEmail" /\ call.arg.t = "string") =>
        LET form == Trim(ToLowerCase(call.arg.s))
            digest == hashEmail(call.arg).ret
        IN  /\ call.ret = IF ~Includes(form, "@") \/ Len(form) < 5 THEN Null
                          ELSE Str(form)
            /\ \A v \in CaseAndSpaceVariants(call.arg.s) :
                   /\ normalizeEmail(Str(v)) = call.ret
                   /\ hashEmail(Str(v)).ret = digest

\* normalizeEmail accepted an input that it had to both lowercase and trim
C10_Witness ==
    /\ call.fn = "normalizeEmail"
    /\ call.ret # Null
    /\ Head(call.arg.s) = " "
    /\ Includes(call.arg.s, "A")

\* the maximal runs of characters of s that are not whitespace, in order
RECURSIVE Words(_, _)
Words(s, word) ==
    IF s = <<>> THEN (IF word = <<>> THEN <<>> ELSE <<word>>)
    ELSE IF Head(s) \in {" ", "\t", "\n"}
         THEN (IF word = <<>> THEN <<>> ELSE <<word>>) \o Words(Tail(s), <<>>)
         ELSE Words(Tail(s), Append(word, Head(s)))

\* the words joined by single spaces
RECURSIVE Spaced(_)
Spaced(ws) ==
    IF ws = <<>> THEN <<>>
    ELSE IF Len(ws) = 1 THEN Head(ws)
    ELSE Head(ws) \o <<" ">> \o Spaced(Tail(ws))

IsSeparator(c) == c \in {"-", "/", "."}
NotSeparator(c) == ~IsSeparator(c)

\* C12: for every string d, normalizeDateOfBirth(d) is d without its hyphens,
\* slashes and periods when that remainder is exactly 8 decimal digits, in the
\* order given, and null otherwise; no calendar check is made.
C12_DateFormatOnly ==
    (call.fn = "normalizeDateOfBirth" /\ call.arg.t = "string") =>
        LET rest == SelectSeq(call.arg.s, NotSeparator)
        IN  call.ret =
                IF Len(rest) = 8 /\ \A i \in 1..Len(rest) : rest[i] \in DigitChars
                THEN Str(rest)
                ELSE Null

\* a month-first date with a slash was accepted and its digits kept in that order
C12_Witness ==
    /\ call.fn = "normalizeDateOfBirth"
    /\ call.arg = Str(<<"0","1","1","5","/","1","9","9","0">>)
    /\ call.ret = Str(<<"0","1","1","5","1","9","9","0">>)

----------------------------------------------------------------------------
(* Direct calls of sha256(), isSha256() and the ten hash methods.  The call *)
(* is recorded with the value its promise resolved to, and digestCalls     *)
(* holds the inputs it invoked sha256() with.                              *)

HashCtorOptions ==
    {[defaultCountryCode |-> Undefined, hashAddressFields |-> Undefined],
     [defaultCountryCode |-> Str(<<"4","4">>), hashAddressFields |-> Bool(TRUE)]}

\* the argument strings: every concatenation of at most MaxSegs of the segments
ComposedInputs(segs) == NonStrings \cup { Str(s) : s \in Compose(segs, MaxSegs) }

HashEmailInputs ==
    ComposedInputs({<<" ">>, <<"@">>, <<"J","o">>, <<"a","@","B",".","c">>})
HashPhoneInputs ==
    ComposedInputs({<<"+">>, <<"-">>, <<"5","5","5">>,
                    <<"5","5","5","1","2","3","4","5","6","7">>})
HashNameInputs == ComposedInputs({<<" ">>, <<"\t">>, <<"J","o">>, <<"a","n","n">>})
HashGenderInputs ==
    ComposedInputs({<<" ">>, <<"M">>, <<"f","e">>, <<"m","a","l","e">>, <<"x">>})
HashDateInputs ==
    ComposedInputs({<<"1","9","9","0">>, <<"0","1","1","5">>, <<"-">>, <<"/">>, <<"x">>})
HashAddressInputs == ComposedInputs({<<" ">>, <<"N">>, <<"y">>, <<"1","0">>})
ExternalIdInputs ==
    ComposedInputs({<<" ">>, <<"\t">>, <<"U","s","e","r">>, <<"u","s","e","r">>,
                    <<"-","4","2">>})
Sha256Inputs == Compose({<<" ">>, <<"a">>, <<"B">>, <<"t","e","s","t">>}, MaxSegs)

\* strings about as long as a digest: pieces of a digest, cut, upper-cased or
\* not hexadecimal
HexBlocks ==
    LET h == sha256(<<"t","e","s","t">>).s
    IN  {SubSeq(h, 1, 32), SubSeq(h, 33, 64), SubSeq(h, 1, 31), SubSeq(h, 1, 33),
         <<"A","B","C","D","E","F">>, <<"g">>, <<"\n">>}
IsSha256Inputs == Compose(HexBlocks, MaxSegs)

\* a hash method resolved: h.ret is its value, h.digested what it had digested
HashCalled(fn, arg, countryCode, h) ==
    /\ call' = [fn |-> fn, arg |-> arg, countryCode |-> countryCode, ret |-> h.ret]
    /\ digestCalls' = h.digested
    /\ UNCHANGED <<ctorOptions, options, heap, raw, pc, at, result, error, tasks>>

CallSha256 ==
    /\ Idle
    /\ \E x \in Sha256Inputs : HashCalled("sha256", Str(x), Undefined, Sha256Call(x))

CallIsSha256 ==
    /\ Idle
    /\ \E x \in IsSha256Inputs :
           HashCalled("isSha256", Str(x), Undefined,
                      [ret |-> Bool(isSha256(x)), digested |-> <<>>])

CallHashEmail ==
    /\ Idle
    /\ \E x \in HashEmailInputs : HashCalled("hashEmail", x, Undefined, hashEmail(x))

CallHashPhone ==
    /\ Idle
    /\ \E x \in HashPhoneInputs, cc \in {Undefined, Str(<<"4","4">>)} :
           HashCalled("hashPhone", x, cc, hashPhone(x, cc))

CallHashName ==
    /\ Idle
    /\ \E x \in HashNameInputs : HashCalled("hashName", x, Undefined, hashName(x))

CallHashGender ==
    /\ Idle
    /\ \E x \in HashGenderInputs : HashCalled("hashGender", x, Undefined, hashGender(x))

CallHashDateOfBirth ==
    /\ Idle
    /\ \E x \in HashDateInputs :
           HashCalled("hashDateOfBirth", x, Undefined, hashDateOfBirth(x))

CallHashCity ==
    /\ Idle
    /\ \E x \in HashAddressInputs : HashCalled("hashCity", x, Undefined, hashCity(x))

CallHashState ==
    /\ Idle
    /\ \E x \in HashAddressInputs : HashCalled("hashState", x, Undefined, hashState(x))

CallHashZipCode ==
    /\ Idle
    /\ \E x \in HashAddressInputs :
           HashCalled("hashZipCode", x, Undefined, hashZipCode(x))

CallHashCountry ==
    /\ Idle
    /\ \E x \in HashAddressInputs :
           HashCalled("hashCountry", x, Undefined, hashCountry(x))

CallHashExternalId ==
    /\ Idle
    /\ \E x \in ExternalIdInputs :
           HashCalled("hashExternalId", x, Undefined, hashExternalId(x))

\* the caller has read the resolved value and may call again
ConsumeHash ==
    /\ call.fn # "none"
    /\ call' = NoCall
    /\ digestCalls' = <<>>
    /\ UNCHANGED <<ctorOptions, options, heap, raw, pc, at, result, error, tasks>>

InitHash ==
    /\ ctorOptions \in HashCtorOptions
    /\ options = Constructor(ctorOptions)
    /\ heap = HeapInit
    /\ raw = [t |-> "object", fields |-> EmptyRecord]
    /\ pc = "idle"
    /\ at = 0
    /\ result = EmptyRecord
    /\ digestCalls = <<>>
    /\ call = NoCall
    /\ error = "none"
    /\ tasks = <<>>

NextHash ==
    \/ CallSha256
    \/ CallIsSha256
    \/ CallHashEmail
    \/ CallHashPhone
    \/ CallHashName
    \/ CallHashGender
    \/ CallHashDateOfBirth
    \/ CallHashCity
    \/ CallHashState
    \/ CallHashZipCode
    \/ CallHashCountry
    \/ CallHashExternalId
    \/ ConsumeHash

SpecHash == InitHash /\ [][NextHash]_vars

----------------------------------------------------------------------------
(* Claims about the hash primitive and the hash methods *)

\* C13: hashExternalId(x) of a non-empty string x digests x without its leading
\* and trailing whitespace and with nothing else changed (letter case kept, no
\* string rejected); it resolves to null, with nothing digested, exactly for the
\* empty string and for values that are not strings.
C13_ExternalIdTrimmedOnly ==
    (call.fn = "hashExternalId") =>
        IF call.arg.t = "string" /\ call.arg.s # <<>>
        THEN /\ Len(digestCalls) = 1
             /\ call.ret = sha256(digestCalls[1])
             /\ LET x == call.arg.s
                    d == digestCalls[1]
                IN  \E i \in 1..(Len(x) + 1) :
                        /\ i + Len(d) - 1 <= Len(x)
                        /\ d = SubSeq(x, i, i + Len(d) - 1)
                        /\ \A k \in 1..Len(x) :
                               (k < i \/ k >= i + Len(d)) => x[k] \in {" ", "\t", "\n"}
                        /\ d # <<>> => /\ d[1] \notin {" ", "\t", "\n"}
                                       /\ d[Len(d)] \notin {" ", "\t", "\n"}
        ELSE call.ret = Null /\ digestCalls = <<>>

\* an id with a capital letter and surrounding whitespace was digested trimmed,
\* with its capital, and not as the lowercase id
C13_Witness ==
    /\ call.fn = "hashExternalId"
    /\ call.arg = Str(<<" ", "U","s","e","r", "\t">>)
    /\ digestCalls = << <<"U","s","e","r">> >>
    /\ call.ret # sha256(<<"u","s","e","r">>)

LowerHexChars ==
    {"0","1","2","3","4","5","6","7","8","9","a","b","c","d","e","f"}

HexValue(c) == CHOOSE v \in 0..15 : HexDigits[v + 1] = c

\* C14: sha256(x) resolves to 64 characters of [0-9a-f], two per digest byte
\* with a leading zero where needed, so isSha256 accepts it; isSha256(v) is true
\* exactly when v is 64 characters of [0-9a-f].
C14_DigestShape ==
    /\ (call.fn = "sha256") =>
           LET r == call.ret.s
               bytes == SubtleDigest(Encode(call.arg.s))
           IN  /\ call.ret.t = "string"
               /\ Len(r) = 64
               /\ \A i \in 1..Len(r) : r[i] \in LowerHexChars
               /\ \A i \in 1..32 :
                      16 * HexValue(r[2 * i - 1]) + HexValue(r[2 * i]) = bytes[i]
               /\ isSha256(r)
    /\ (call.fn = "isSha256") =>
           LET v == call.arg.s
           IN  call.ret = Bool(Len(v) = 64 /\ \A i \in 1..Len(v) : v[i] \in LowerHexChars)

\* a digest with a byte below 16 was rendered with the leading zero
C14_Witness ==
    /\ call.fn = "sha256"
    /\ \E i \in 1..32 : SubtleDigest(Encode(call.arg.s))[i] < 16
    /\ Len(call.ret.s) = 64

HashMethods ==
    {"hashEmail", "hashPhone", "hashName", "hashGender", "hashDateOfBirth",
     "hashCity", "hashState", "hashZipCode", "hashCountry"}

\* the normalizer a hash method is built on
NormalizerOf(fn) ==
    CASE fn = "hashEmail" -> "normalizeEmail"
      [] fn = "hashPhone" -> "normalizePhone"
      [] fn = "hashName" -> "normalizeName"
      [] fn = "hashGender" -> "normalizeGender"
      [] fn = "hashDateOfBirth" -> "normalizeDateOfBirth"
      [] fn = "hashCity" -> "normalizeCity"
      [] fn = "hashState" -> "normalizeState"
      [] fn = "hashZipCode" -> "normalizeZipCode"
      [] fn = "hashCountry" -> "normalizeCountry"

\* C16: each of the nine normalize-then-hash methods resolves to null exactly
\* when its normalizer returns null, then without invoking sha256; otherwise it
\* invokes sha256 once, on the normalized string, and resolves to that digest.
C16_HashAfterNormalize ==
    (call.fn \in HashMethods) =>
        LET n == Apply(NormalizerOf(call.fn), call.arg, call.countryCode)
        IN  /\ (call.ret = Null) <=> (n = Null)
            /\ (n = Null) => digestCalls = <<>>
            /\ (n # Null) => /\ digestCalls = <<n.s>>
                             /\ call.ret = sha256(n.s)

\* a name was digested in its normalized form, which is not the raw argument
C16_Witness ==
    /\ call.fn = "hashName"
    /\ call.arg = Str(<<" ", "J","o">>)
    /\ digestCalls = << <<"j","o">> >>
    /\ call.ret = sha256(<<"j","o">>)

----------------------------------------------------------------------------
(* normalize() on a platform whose crypto.subtle.digest may fail.  No       *)
(* try/catch stands between the digest and the caller of normalize(): the  *)
(* rejection of the awaited promise passes through sha256(), the hash      *)
(* method and normalize().                                                 *)

\* a faulty normalize(): catches the failure and goes on without the field
NormalizeDigestFails_Swallowed ==
    /\ pc = "await"
    /\ HashField(FieldOrder[at], raw.fields[FieldOrder[at]]).digested # <<>>
    /\ LET step == RunFrom(at + 1, result, raw.fields)
       IN  /\ pc' = step.pc
           /\ at' = step.at
           /\ result' = step.result
           /\ digestCalls' = digestCalls \o Invoked(step, raw.fields)
    /\ error' = "DigestError"
    /\ UNCHANGED <<ctorOptions, options, heap, raw, call, tasks>>

\* the digest invoked for the awaited field fails: `await this.hashX(...)` throws
\* inside normalize() and its promise rejects
NormalizeDigestFails ==
    /\ pc = "await"
    /\ HashField(FieldOrder[at], raw.fields[FieldOrder[at]]).digested # <<>>
    /\ pc' = "rejected"
    /\ error' = "DigestError"
    /\ UNCHANGED <<ctorOptions, options, heap, raw, at, result, digestCalls, call, tasks>>

NextCrypto ==
    \/ NormalizeBegin
    \/ NormalizeThrow
    \/ NormalizeResume
    \/ NormalizeDigestFails

SpecCrypto == Init /\ [][NextCrypto]_vars

\* the fields of the raw record that normalize() hands to a hash method
Submitted == { f \in DOMAIN raw.fields : Truthy(raw.fields[f]) /\ Hashes(f) }

\* C15: a failed digest makes the normalize() call fail with that error, and no
\* record is returned; a field rejected by validation is only left out: a call
\* on a record fails for no other reason than a failed digest, and a returned
\* record holds every submitted field except those validation rejected.
C15_DigestFailureRejects ==
    /\ (error = "DigestError") => pc = "rejected"
    /\ (pc = "rejected" /\ raw.t = "object") => error = "DigestError"
    /\ (pc = "returned") =>
           /\ error = "none"
           /\ \A f \in Submitted :
                  (f \notin DOMAIN result) <=> (HashField(f, raw.fields[f]).ret = Null)

\* the call failed on the digest of a later field after an earlier field had
\* been rejected by validation and left out
C15_Witness ==
    /\ pc = "rejected"
    /\ error = "DigestError"
    /\ \E f \in Submitted :
           /\ HashField(f, raw.fields[f]).ret = Null
           /\ \E i \in 1..(at - 1) : FieldOrder[i] = f

----------------------------------------------------------------------------
(* Several normalize() calls in progress on one Normalizer.  Each call has  *)
(* its own activation: its raw argument, its position and its `result`     *)
(* local; this.options is the only state of the instance.  A call runs     *)
(* until it awaits a hash, and any suspended call may be resumed next.     *)

\* the number of calls in progress together
NumTasks == 2

\* the raw records the concurrent calls are given
ConcRaws ==
    {EmptyRecord,
     [email |-> Str(<<"A","@","b",".","c">>), phone |-> Str(<<"1","2","3">>),
      city |-> Str(<<" ","N","Y">>), traits |-> Obj(1)],
     [email |-> Str(<<"x","@","y",".","z">>), first_name |-> Str(<<" ","J","o">>),
      external_id |-> Str(<<"U","s","e","r">>)],
     [email |-> Num(123), last_name |-> Str(<<"a","n","n">>),
      country |-> Str(<<"U","S">>), lead_id |-> Str(<<"L","1">>)]}

ConcCtorOptions ==
    {[defaultCountryCode |-> Undefined, hashAddressFields |-> Undefined],
     [defaultCountryCode |-> Undefined, hashAddressFields |-> Bool(TRUE)]}

\* the activation of a normalize(rec) call that has not started to run
NewTask(rec) ==
    [raw |-> [t |-> "object", fields |-> rec], pc |-> "called", at |-> 0,
     result |-> EmptyRecord, digestCalls |-> <<>>]

\* the activation after running from a step to the next await or the return
Ran(task, step) ==
    [raw |-> task.raw, pc |-> step.pc, at |-> step.at, result |-> step.result,
     digestCalls |-> task.digestCalls \o Invoked(step, task.raw.fields)]

\* call i starts: it runs to its first await or returns
TaskBegin(i) ==
    /\ tasks[i].pc = "called"
    /\ tasks' = [tasks EXCEPT ![i] = Ran(@, RunFrom(1, EmptyRecord, @.raw.fields))]
    /\ UNCHANGED <<ctorOptions, options, heap, raw, pc, at, result, digestCalls,
                   call, error>>

\* a faulty normalize(): the record is kept on the instance, so that a resumed
\* call adds its field to the record of the first call
TaskResume_SharedResult(i) ==
    /\ tasks[i].pc = "await"
    /\ LET task == tasks[i]
           f == FieldOrder[task.at]
           h == HashField(f, task.raw.fields[f]).ret
           res == IF Truthy(h) THEN Put(tasks[1].result, f, h) ELSE tasks[1].result
       IN  tasks' = [tasks EXCEPT ![i] = Ran(task, RunFrom(task.at + 1, res, task.raw.fields))]
    /\ UNCHANGED <<ctorOptions, options, heap, raw, pc, at, result, digestCalls,
                   call, error>>

\* the hash call i awaits resolves: `if (h) result.f = h`, then on to its next await
TaskResume(i) ==
    /\ tasks[i].pc = "await"
    /\ LET task == tasks[i]
           f == FieldOrder[task.at]
           h == HashField(f, task.raw.fields[f]).ret
           res == IF Truthy(h) THEN Put(task.result, f, h) ELSE task.result
       IN  tasks' = [tasks EXCEPT ![i] = Ran(task, RunFrom(task.at + 1, res, task.raw.fields))]
    /\ UNCHANGED <<ctorOptions, options, heap, raw, pc, at, result, digestCalls,
                   call, error>>

InitConc ==
    /\ ctorOptions \in ConcCtorOptions
    /\ options = Constructor(ctorOptions)
    /\ heap = HeapInit
    /\ raw = [t |-> "object", fields |-> EmptyRecord]
    /\ pc = "idle"
    /\ at = 0
    /\ result = EmptyRecord
    /\ digestCalls = <<>>
    /\ call = NoCall
    /\ error = "none"
    /\ tasks \in [1..NumTasks -> { NewTask(rec) : rec \in ConcRaws }]

NextConc ==
    \/ \E i \in 1..NumTasks : TaskBegin(i)
    \/ \E i \in 1..NumTasks : TaskResume(i)

SpecConc == InitConc /\ [][NextConc]_vars

\* the activations a normalize(rec) call goes through when it is the only call
\* in progress, from the given one to the returned one
RECURSIVE AloneFrom(_)
AloneFrom(task) ==
    IF task.pc = "called"
    THEN {task} \cup AloneFrom(Ran(task, RunFrom(1, EmptyRecord, task.raw.fields)))
    ELSE IF task.pc = "await"
    THEN LET f == FieldOrder[task.at]
             h == HashField(f, task.raw.fields[f]).ret
             res == IF Truthy(h) THEN Put(task.result, f, h) ELSE task.result
         IN  {task} \cup AloneFrom(Ran(task, RunFrom(task.at + 1, res, task.raw.fields)))
    ELSE {task}

\* the index of field f in the order normalize() handles the fields
IndexOf(f) == CHOOSE i \in 1..Len(FieldOrder) : FieldOrder[i] = f

\* at every moment every call is in a state of its run alone, it returns the
\* record of its run alone, and while it awaits the hash of a field it has
\* handled no later field
C17_TaskState ==
    \A i \in 1..NumTasks :
        LET task == tasks[i]
            alone == AloneFrom(NewTask(task.raw.fields))
        IN  /\ task \in alone
            /\ (task.pc = "returned") =>
                   \E last \in alone : last.pc = "returned" /\ last.result = task.result
            /\ (task.pc = "await") =>
                   /\ \A f \in DOMAIN task.result : IndexOf(f) < task.at
                   /\ Len(task.digestCalls) <= Cardinality({ f \in DOMAIN task.raw.fields :
                                                             IndexOf(f) <= task.at })

\* a step runs one call and leaves the others, and this.options, as they were
C17_OneTaskMoves ==
    \E i \in 1..NumTasks :
        /\ \A j \in 1..NumTasks : j # i => tasks'[j] = tasks[j]
        /\ tasks'[i].raw = tasks[i].raw
        /\ options' = options

\* C17: normalize() calls interleaved at their awaits on one Normalizer each
\* return the record they return when run alone; a step of one call changes
\* nothing of another call nor of the instance; within a call the fields are
\* handled in order, each hash awaited before the next field is started.
C17_ConcurrentCallsIndependent == []C17_TaskState /\ [][C17_OneTaskMoves]_vars

\* two calls on different records are suspended together, each with a hashed
\* field already in its record
C17_Witness ==
    /\ tasks[1].pc = "await"
    /\ tasks[2].pc = "await"
    /\ tasks[1].raw # tasks[2].raw
    /\ tasks[1].result # EmptyRecord
    /\ tasks[2].result # EmptyRecord

----------------------------------------------------------------------------
(* The caller after normalize() has returned.  It holds the raw record and  *)
(* the returned record and may assign to a property of either, or to a     *)
(* property of the traits object it reaches through either.                *)

Changed == Str(<<"c","h","a","n","g","e","d">>)

\* obj.custom = 'changed', for the object a traits property refers to
SetCustom(ref) ==
    [heap EXCEPT ![ref] = Put(@, "custom", Changed)]

\* raw.f = 'changed'
MutateRawField ==
    /\ pc = "returned"
    /\ \E f \in DOMAIN raw.fields :
           /\ raw.fields[f] # Changed
           /\ raw' = [raw EXCEPT !.fields = Put(@, f, Changed)]
    /\ UNCHANGED <<ctorOptions, options, heap, pc, at, result, digestCalls, call,
                   error, tasks>>

\* raw.traits.custom = 'changed'
MutateRawTraits ==
    /\ pc = "returned"
    /\ Get(raw.fields, "traits").t = "object"
    /\ heap' = SetCustom(raw.fields.traits.n)
    /\ heap' # heap
    /\ UNCHANGED <<ctorOptions, options, raw, pc, at, result, digestCalls, call,
                   error, tasks>>

\* result.f = 'changed'
MutateResultField ==
    /\ pc = "returned"
    /\ \E f \in DOMAIN result :
           /\ result[f] # Changed
           /\ result' = Put(result, f, Changed)
    /\ UNCHANGED <<ctorOptions, options, heap, raw, pc, at, digestCalls, call,
                   error, tasks>>

\* result.traits.custom = 'changed'
MutateResultTraits ==
    /\ pc = "returned"
    /\ Get(result, "traits").t = "object"
    /\ heap' = SetCustom(result.traits.n)
    /\ heap' # heap
    /\ UNCHANGED <<ctorOptions, options, raw, pc, at, result, digestCalls, call,
                   error, tasks>>

NextAlias ==
    \/ NormalizeBegin
    \/ NormalizeThrow
    \/ NormalizeResume
    \/ MutateRawField
    \/ MutateRawTraits
    \/ MutateResultField
    \/ MutateResultTraits

SpecAlias == Init /\ [][NextAlias]_vars

\* a value as the caller sees it: an object with the contents it has in heap h
RECURSIVE Seen(_, _)
Seen(v, h) ==
    IF v.t = "object"
    THEN [t |-> "object", props |-> [k \in DOMAIN h[v.n] |-> Seen(h[v.n][k], h)]]
    ELSE v

\* a record as the caller sees it
SeenRecord(rec, h) == [f \in DOMAIN rec |-> Seen(rec[f], h)]

\* C18: once normalize() has returned, an assignment to the raw record or to its
\* traits object leaves the returned record as it was, and an assignment to the
\* returned record or to its traits object leaves the raw record as it was.
C18_NoSharedStructure ==
    [][/\ (MutateRawField \/ MutateRawTraits) =>
              SeenRecord(result', heap') = SeenRecord(result, heap)
       /\ (MutateResultField \/ MutateResultTraits) =>
              SeenRecord(raw'.fields, heap') = SeenRecord(raw.fields, heap)]_vars

====
